---- MODULE Spec2Model ----
(***************************************************************************)
(* Model of the Wayland client session of src/main.rs: registry global     *)
(* discovery and binding, startup of the surface / xdg_surface / toplevel  *)
(* / decoration objects, the xdg_surface configure handler with its shared *)
(* memory buffer provisioning, and the xdg_wm_base ping handler.           *)
(*                                                                         *)
(* The program is single threaded.  Events are dispatched only inside      *)
(* event_queue.roundtrip (line 217) and event_queue.blocking_dispatch      *)
(* (line 237); every handler runs to completion (or panics) before the     *)
(* next event is dispatched, so each handler is one atomic action.         *)
(***************************************************************************)
EXTENDS Integers, Sequences, FiniteSets, TLC

\* ------------------------------------------------------------------ bounds
\* number of wl_registry.global events the server sends in one session
MaxGlobals == 4
\* number of xdg_surface.configure events the server sends
MaxConfigures == 2
\* serials carried by configure and ping events: 1..MaxSerial
MaxSerial == 2
\* bounds of the binding-only specification SpecBind
MaxBindGlobals == 2
MaxBindVersion == 8

\* --------------------------------------------------------------- constants
\* let width = 500; let height = 500; 4 bytes per pixel
Width == 500
Height == 500
BytesPerPixel == 4
\* largest value of an i32 (u32 -> i32 conversions by try_into().unwrap())
I32Max == 2147483647
\* the size of a page of a mapping made by libc::mmap
PageSize == 4096

\* the interface names matched by handle_global_add
WlCompositor == "wl_compositor"
WlShm == "wl_shm"
XdgWmBase == "xdg_wm_base"
ZxdgDecorationManagerV1 == "zxdg_decoration_manager_v1"
\* an interface name that handle_global_add does not match
WlOutput == "wl_output"

Recognized == {WlCompositor, WlShm, XdgWmBase, ZxdgDecorationManagerV1}
Interfaces == Recognized \cup {WlOutput}

\* Option<T>: None is the empty tuple, Some(x) the one-element tuple
None == <<>>
Some(x) == <<x>>
IsSome(o) == o # None

VARIABLES
    pc,          \* position of main: "roundtrip", "loop", "panic", "error",
                 \* "killed" (the process was ended by a signal)
    fault,       \* where the process panicked or was killed ("" while it has not)
    state,       \* the AppState record
    event,       \* the event whose handler ran last (<<"none">> before the first)
    sent,        \* the requests issued by the last step, in the order issued
    nGlobals,    \* number of global events dispatched (the server's name counter)
    seen,        \* interfaces of the global events dispatched so far
    lastName,    \* for each interface, the name of its latest global (0: none yet)
    heldAtRoundtrip, \* interfaces whose handle was held when the round-trip returned
    nConfigures, \* number of xdg_surface.configure events dispatched so far
    pools        \* one record per draw_frame call: the backing file, the mapping,
                 \* the buffer, and the provisioning steps taken, in order

vars == <<pc, fault, state, event, sent, nGlobals, seen, lastName,
          heldAtRoundtrip, nConfigures, pools>>

Req(op, args) == [op |-> op, args |-> args]

\* ----------------------------------------------------------------- AppState
\* impl Default for AppState: every field None
AppStateDefault ==
    [display |-> None, registry |-> None, compositor |-> None, shm |-> None,
     xdg_wm_base |-> None, xdg_decoration_manager |-> None,
     surface |-> None, xdg_surface |-> None, xdg_toplevel |-> None,
     queue_handle |-> None]

\* main, lines 204-215: connect, set_display, set_queue_handle, get_registry,
\* set_registry; the state when roundtrip (line 217) starts dispatching
Init ==
    /\ pc = "roundtrip"
    /\ fault = ""
    /\ state = [AppStateDefault EXCEPT !.display = Some("wl_display"),
                                       !.queue_handle = Some("qh"),
                                       !.registry = Some("wl_registry")]
    /\ event = <<"none">>
    /\ sent = <<Req("get_registry", <<>>)>>
    /\ nGlobals = 0
    /\ seen = {}
    /\ lastName = [i \in Interfaces |-> 0]
    /\ heldAtRoundtrip = {}
    /\ nConfigures = 0
    /\ pools = <<>>

Min(a, b) == IF a <= b THEN a ELSE b

\* ------------------------------------------------------- handle_global_add
\* the version argument of registry.bind in each arm of the match
BindVersion(interface, version) ==
    IF interface = ZxdgDecorationManagerV1 THEN Min(version, 1) ELSE version

\* the wl_shm arm stores its proxy in the compositor field
FieldOf_CopyPaste(interface) ==
    CASE interface = WlCompositor -> "compositor"
      [] interface = WlShm -> "compositor"
      [] interface = XdgWmBase -> "xdg_wm_base"
      [] interface = ZxdgDecorationManagerV1 -> "xdg_decoration_manager"

\* the field of AppState an interface is stored in
FieldOf(interface) ==
    CASE interface = WlCompositor -> "compositor"
      [] interface = WlShm -> "shm"
      [] interface = XdgWmBase -> "xdg_wm_base"
      [] interface = ZxdgDecorationManagerV1 -> "xdg_decoration_manager"

\* a handle_global_add that creates the surface as soon as it has bound the
\* compositor, inside the round-trip
GlobalAddRequests_EagerSurface(name, interface, version) ==
    IF interface \in Recognized
    THEN <<Req("bind", <<name, interface, BindVersion(interface, version)>>)>>
         \o (IF interface = WlCompositor THEN <<Req("create_surface", <<>>)>> ELSE <<>>)
    ELSE <<>>

\* the requests handle_global_add issues for global(name, interface, version)
GlobalAddRequests(name, interface, version) ==
    IF interface \in Recognized
    THEN <<Req("bind", <<name, interface, BindVersion(interface, version)>>)>>
    ELSE <<>>

\* a handle_global_add that keeps the proxy it already holds
GlobalAddState_KeepFirst(st, name, interface, version) ==
    IF interface \in Recognized /\ ~IsSome(st[FieldOf(interface)])
    THEN [st EXCEPT ![FieldOf(interface)] =
              Some([name |-> name, version |-> BindVersion(interface, version)])]
    ELSE st

\* the AppState after handle_global_add: the matching field holds the new proxy
GlobalAddState(st, name, interface, version) ==
    IF interface \in Recognized
    THEN [st EXCEPT ![FieldOf(interface)] =
              Some([name |-> name, version |-> BindVersion(interface, version)])]
    ELSE st

\* Dispatch<WlRegistry>::event, arm Global: the server's next global
RegistryGlobal(interface, version) ==
    /\ pc \in {"roundtrip", "loop"}
    /\ LET name == nGlobals + 1 IN
        /\ event' = <<"global", name, interface, version>>
        /\ sent' = GlobalAddRequests(name, interface, version)
        /\ state' = GlobalAddState(state, name, interface, version)
        /\ nGlobals' = name
    /\ seen' = seen \cup {interface}
    /\ lastName' = [lastName EXCEPT ![interface] = nGlobals + 1]
    /\ UNCHANGED <<pc, fault, heldAtRoundtrip, nConfigures, pools>>

\* Dispatch<WlRegistry>::event, arm GlobalRemove { name }: todo!() panics
RegistryGlobalRemove(name) ==
    /\ pc \in {"roundtrip", "loop"}
    /\ event' = <<"global_remove", name>>
    /\ sent' = <<>>
    /\ pc' = "panic"
    /\ fault' = "todo_global_remove"
    /\ UNCHANGED <<state, nGlobals, seen, lastName, heldAtRoundtrip, nConfigures, pools>>

\* the recognized interfaces whose AppState field is Some
Held(st) == {i \in Recognized : IsSome(st[FieldOf(i)])}

\* ------------------------------------------------------------ main startup
\* a startup that draws before the first configure
StartupCommit_AttachFirst == <<Req("attach", <<1, 0, 0>>), Req("commit", <<>>)>>

\* a startup that commits the surface twice
StartupCommit_Twice == <<Req("commit", <<>>), Req("commit", <<>>)>>

\* state.surface.as_ref().unwrap().commit() on line 234: the initial commit,
\* with no buffer attached
StartupCommit == <<Req("commit", <<>>)>>

\* main, lines 219-234, after roundtrip returned Ok: the requests issued up to
\* the first unwrap of a None field, the fields set, and where main stands
MainStartupResult(st) ==
    IF ~IsSome(st.compositor)
    THEN [reqs |-> <<>>, state |-> st, pc |-> "panic", fault |-> "unwrap_compositor"]
    ELSE
    LET r1 == <<Req("create_surface", <<>>)>>
        s1 == [st EXCEPT !.surface = Some("wl_surface")]
    IN
    IF ~IsSome(s1.xdg_wm_base)
    THEN [reqs |-> r1, state |-> s1, pc |-> "panic", fault |-> "unwrap_xdg_wm_base"]
    ELSE
    LET r2 == r1 \o <<Req("get_xdg_surface", <<"wl_surface">>),
                      Req("get_toplevel", <<>>),
                      Req("set_title", <<"Hello, world!">>)>>
        s2 == [s1 EXCEPT !.xdg_surface = Some("xdg_surface")]
    IN
    IF ~IsSome(s2.xdg_decoration_manager)
    THEN [reqs |-> r2, state |-> s2, pc |-> "panic",
          fault |-> "unwrap_xdg_decoration_manager"]
    ELSE
    [reqs |-> r2 \o <<Req("get_toplevel_decoration", <<"xdg_toplevel">>),
                      Req("set_mode", <<"ServerSide">>)>> \o StartupCommit,
     state |-> [s2 EXCEPT !.xdg_toplevel = Some("xdg_toplevel")],
     pc |-> "loop", fault |-> ""]

\* event_queue.roundtrip returns Ok (line 217) and main runs lines 219-234
MainStartup ==
    /\ pc = "roundtrip"
    /\ LET r == MainStartupResult(state) IN
        /\ sent' = r.reqs
        /\ state' = r.state
        /\ pc' = r.pc
        /\ fault' = r.fault
    /\ event' = <<"startup">>
    /\ heldAtRoundtrip' = Held(state)
    /\ UNCHANGED <<nGlobals, seen, lastName, nConfigures, pools>>

\* a loop that swallows the error of a dispatch and goes on
DispatchError_Retry ==
    /\ pc \in {"roundtrip", "loop"}
    /\ event' = <<"error">>
    /\ sent' = <<>>
    /\ UNCHANGED <<pc, fault, state, nGlobals, seen, lastName, heldAtRoundtrip,
                   nConfigures, pools>>

\* roundtrip(..)? on line 217 or blocking_dispatch(..)? on line 237 returns Err:
\* main returns the error
DispatchError ==
    /\ pc \in {"roundtrip", "loop"}
    /\ pc' = "error"
    /\ event' = <<"error">>
    /\ sent' = <<>>
    /\ UNCHANGED <<fault, state, nGlobals, seen, lastName, heldAtRoundtrip, nConfigures, pools>>

\* ------------------------------------------------------------------- ping
\* a pong that does not carry the serial of the ping
PingRequests_FixedSerial(serial) == <<Req("pong", <<0>>)>>

\* the requests Dispatch<XdgWmBase>::event issues for Ping { serial }
PingRequests(serial) == <<Req("pong", <<serial>>)>>

\* Dispatch<XdgWmBase>::event: a ping can arrive once xdg_wm_base is bound
XdgWmBasePing(serial) ==
    /\ pc \in {"roundtrip", "loop"}
    /\ IsSome(state.xdg_wm_base)
    /\ event' = <<"ping", serial>>
    /\ sent' = PingRequests(serial)
    /\ UNCHANGED <<pc, fault, state, nGlobals, seen, lastName, heldAtRoundtrip,
                   nConfigures, pools>>

\* ------------------------------------------------- shared memory allocator
\* the ways create_shm_pool returns Err: tempfile()?, set_len(..)?, MAP_FAILED
AllocFailures == {"tempfile_err", "set_len_err", "mmap_failed"}

\* set_len above the file size limit of the process (RLIMIT_FSIZE) does not
\* return: ftruncate raises SIGXFSZ, whose default disposition ends the process
AllocSignals == {"set_len_sigxfsz"}

\* what the operating system answers to the calls of one create_shm_pool
AllocOutcomes == {"ok"} \cup AllocFailures \cup AllocSignals

\* a create_shm_pool that does not compare the result of mmap with MAP_FAILED
create_shm_pool_UncheckedMmap(size, outcome) ==
    CASE outcome = "tempfile_err" ->
            [ok |-> FALSE, file |-> FALSE, len |-> 0, fdOpen |-> FALSE,
             mapped |-> FALSE, mapLen |-> 0, signal |-> ""]
      [] outcome = "set_len_err" ->
            [ok |-> FALSE, file |-> TRUE, len |-> 0, fdOpen |-> FALSE,
             mapped |-> FALSE, mapLen |-> 0, signal |-> ""]
      [] outcome = "mmap_failed" ->
            [ok |-> TRUE, file |-> TRUE, len |-> size, fdOpen |-> TRUE,
             mapped |-> FALSE, mapLen |-> 0, signal |-> ""]
      [] outcome = "set_len_sigxfsz" ->
            [ok |-> FALSE, file |-> TRUE, len |-> 0, fdOpen |-> TRUE,
             mapped |-> FALSE, mapLen |-> 0, signal |-> "SIGXFSZ"]
      [] outcome = "ok" ->
            [ok |-> TRUE, file |-> TRUE, len |-> size, fdOpen |-> TRUE,
             mapped |-> TRUE, mapLen |-> size, signal |-> ""]

\* create_shm_pool(size): the temporary file and its mapping.  On an error
\* return tmpfile is dropped, which closes the descriptor; a process killed
\* inside set_len runs no destructor and ends with the file open.
create_shm_pool(size, outcome) ==
    CASE outcome = "tempfile_err" ->
            [ok |-> FALSE, file |-> FALSE, len |-> 0, fdOpen |-> FALSE,
             mapped |-> FALSE, mapLen |-> 0, signal |-> ""]
      [] outcome = "set_len_err" ->
            [ok |-> FALSE, file |-> TRUE, len |-> 0, fdOpen |-> FALSE,
             mapped |-> FALSE, mapLen |-> 0, signal |-> ""]
      [] outcome = "mmap_failed" ->
            [ok |-> FALSE, file |-> TRUE, len |-> size, fdOpen |-> FALSE,
             mapped |-> FALSE, mapLen |-> 0, signal |-> ""]
      [] outcome = "set_len_sigxfsz" ->
            [ok |-> FALSE, file |-> TRUE, len |-> 0, fdOpen |-> TRUE,
             mapped |-> FALSE, mapLen |-> 0, signal |-> "SIGXFSZ"]
      [] outcome = "ok" ->
            [ok |-> TRUE, file |-> TRUE, len |-> size, fdOpen |-> TRUE,
             mapped |-> TRUE, mapLen |-> size, signal |-> ""]

\* -------------------------------------------------------------- draw_frame
\* a stride padded to a multiple of 64 bytes
Stride_Padded == ((Width * BytesPerPixel + 63) \div 64) * 64

\* let stride = width * 4;
Stride == Width * BytesPerPixel
\* let size = stride * height;
Size == Stride * Height

\* the local shm_file goes out of scope (return or unwinding): File::drop
\* closes the descriptor; the mapping is never unmapped
DropShmFile(a) == [a EXCEPT !.fdOpen = FALSE]

\* the number of bytes the fill loop writes: 4 for each (x, y)
FilledBytes == Height * Width * 4

\* the number of pages of the mapping of size bytes
PagesOfFile == (Size + PageSize - 1) \div PageSize

\* The temporary file is sparse: tempfile, set_len and mmap succeed without
\* any page being backed, and a page is taken from the filesystem at the first
\* write to it.  The pages the filesystem of the temporary file has left when
\* the fill loop starts, counted up to the pages of the file:
FreePages == 0..PagesOfFile

\* with fewer free pages than the file has, the fill loop is ended by SIGBUS
\* at the first byte of the first page that cannot be backed; the row y of
\* the loop that write is in (offset = (y * width + x) * 4)
SigbusRow(freePages) == (PageSize * freePages) \div (Width * 4)

\* the bytes of the rows the fill loop completed before row y
FilledRows(y) == y * Width * 4

\* draw_frame(state) for the id-th provisioning: the requests it issues, the
\* pool record it leaves behind, and whether it returned Ok(buffer).  A
\* process killed by a signal runs no destructor: its record keeps the
\* descriptor and the mapping as they were when the signal arrived.
draw_frame(st, id, outcome, freePages) ==
    LET a == create_shm_pool(Size, outcome)
        base == [len |-> a.len, fdOpen |-> a.fdOpen, mapped |-> a.mapped,
                 mapLen |-> a.mapLen, file |-> a.file,
                 pool |-> FALSE, buffer |-> FALSE, filled |-> 0,
                 attached |-> FALSE, released |-> FALSE,
                 steps |-> <<"allocate">>]
    IN
    IF ~IsSome(st.queue_handle)
    THEN [ok |-> FALSE, reqs |-> <<>>, fault |-> "unwrap_queue_handle",
          rec |-> [base EXCEPT !.file = FALSE, !.len = 0, !.fdOpen = FALSE,
                               !.mapped = FALSE, !.mapLen = 0, !.steps = <<>>]]
    ELSE IF a.signal # ""
    THEN [ok |-> FALSE, reqs |-> <<>>, fault |-> a.signal, rec |-> base]
    ELSE IF ~a.ok
    THEN [ok |-> FALSE, reqs |-> <<>>, fault |-> "failed to draw frame", rec |-> base]
    ELSE IF ~IsSome(st.shm)
    THEN [ok |-> FALSE, reqs |-> <<>>, fault |-> "unwrap_shm",
          rec |-> DropShmFile(base)]
    ELSE IF Size > I32Max
    THEN [ok |-> FALSE, reqs |-> <<>>, fault |-> "try_into_size",
          rec |-> DropShmFile(base)]
    ELSE
    LET r1 == <<Req("create_pool", <<id, Size>>)>>
        p1 == [base EXCEPT !.pool = TRUE, !.steps = Append(@, "create_pool")]
    IN
    IF Width > I32Max \/ Height > I32Max \/ Stride > I32Max
    THEN [ok |-> FALSE, reqs |-> r1, fault |-> "try_into_geometry",
          rec |-> DropShmFile(p1)]
    ELSE
    LET r2 == r1 \o <<Req("create_buffer",
                          <<id, 0, Width, Height, Stride, "Argb8888">>)>>
        p2 == [p1 EXCEPT !.buffer = TRUE, !.steps = Append(@, "create_buffer")]
    IN
    IF freePages < PagesOfFile
    THEN [ok |-> FALSE, reqs |-> r2, fault |-> "SIGBUS",
          rec |-> [p2 EXCEPT !.filled = FilledRows(SigbusRow(freePages))]]
    ELSE
    [ok |-> TRUE, reqs |-> r2, fault |-> "",
     rec |-> DropShmFile([p2 EXCEPT !.filled = FilledBytes,
                                    !.steps = Append(@, "fill")])]

\* ------------------------------------------------- xdg_surface configure
\* an acknowledgment that always carries the first serial
AckRequests_Stale(serial) == <<Req("ack_configure", <<1>>)>>

\* proxy.ack_configure(serial)
AckRequests(serial) == <<Req("ack_configure", <<serial>>)>>

\* a handler that commits before it attaches
SurfaceRequests_CommitFirst(id) == <<Req("commit", <<>>), Req("attach", <<id, 0, 0>>)>>

\* a handler that keeps attaching the buffer of the first cycle
SurfaceRequests_FirstBuffer(id) == <<Req("attach", <<1, 0, 0>>), Req("commit", <<>>)>>

\* surface.attach(Some(&buffer), 0, 0); surface.commit();
SurfaceRequests(id) == <<Req("attach", <<id, 0, 0>>), Req("commit", <<>>)>>

\* the signals that end the process inside draw_frame
Signals == {"SIGXFSZ", "SIGBUS"}

\* Dispatch<XdgSurface>::event for Configure { serial }: the requests issued,
\* the pool records left behind, and whether the handler panicked or the
\* process was killed inside it
ConfigureResult(st, serial, id, outcome, freePages) ==
    LET ack == AckRequests(serial) IN
    IF ~IsSome(st.xdg_toplevel)
    THEN [reqs |-> ack, recs |-> <<>>, pc |-> "panic", fault |-> "unwrap_xdg_toplevel"]
    ELSE IF ~IsSome(st.queue_handle)
    THEN [reqs |-> ack, recs |-> <<>>, pc |-> "panic", fault |-> "unwrap_queue_handle"]
    ELSE IF ~IsSome(st.surface)
    THEN [reqs |-> ack, recs |-> <<>>, pc |-> "panic", fault |-> "unwrap_surface"]
    ELSE
    LET d == draw_frame(st, id, outcome, freePages) IN
    IF ~d.ok
    THEN [reqs |-> ack \o d.reqs, recs |-> <<d.rec>>,
          pc |-> IF d.fault \in Signals THEN "killed" ELSE "panic", fault |-> d.fault]
    ELSE [reqs |-> ack \o d.reqs \o SurfaceRequests(id),
          recs |-> <<[d.rec EXCEPT !.attached = TRUE, !.steps = Append(@, "attach")]>>,
          pc |-> "loop", fault |-> ""]

\* a configure event is dispatched by blocking_dispatch: the xdg_surface exists
\* only after main created it, and main dispatches nothing before the loop
XdgSurfaceConfigure(serial, outcome, freePages) ==
    /\ pc = "loop"
    /\ IsSome(state.xdg_surface)
    /\ event' = <<"configure", serial, outcome>>
    /\ nConfigures' = nConfigures + 1
    /\ LET r == ConfigureResult(state, serial, Len(pools) + 1, outcome, freePages) IN
        /\ sent' = r.reqs
        /\ pools' = pools \o r.recs
        /\ pc' = r.pc
        /\ fault' = r.fault
    /\ UNCHANGED <<state, nGlobals, seen, lastName, heldAtRoundtrip>>

\* ------------------------------------------------- handlers with no effect
\* the server sends wl_buffer.release for a committed buffer; the handler
\* Dispatch<WlBuffer>::event has an empty body
WlBufferRelease(i) ==
    /\ pc = "loop"
    /\ pools[i].attached
    /\ ~pools[i].released
    /\ pools' = [pools EXCEPT ![i].released = TRUE]
    /\ event' = <<"release", i>>
    /\ sent' = <<>>
    /\ UNCHANGED <<pc, fault, state, nGlobals, seen, lastName, heldAtRoundtrip, nConfigures>>

\* a toplevel handler that rejects the event
XdgToplevelEvent_Panics ==
    /\ pc = "loop"
    /\ IsSome(state.xdg_toplevel)
    /\ event' = <<"toplevel">>
    /\ sent' = <<>>
    /\ pc' = "panic"
    /\ fault' = "todo_window_state"
    /\ UNCHANGED <<state, nGlobals, seen, lastName, heldAtRoundtrip,
                   nConfigures, pools>>

\* Dispatch<XdgToplevel>::event: empty body, for any toplevel event
XdgToplevelEvent ==
    /\ pc = "loop"
    /\ IsSome(state.xdg_toplevel)
    /\ event' = <<"toplevel">>
    /\ sent' = <<>>
    /\ UNCHANGED <<pc, fault, state, nGlobals, seen, lastName, heldAtRoundtrip,
                   nConfigures, pools>>

\* the modes of zxdg_toplevel_decoration_v1.configure
Modes == {"ClientSide", "ServerSide"}

\* a decoration handler that answers a client-side mode by asking again for
\* server-side decorations
DecorationConfigure_Renegotiate(mode) ==
    /\ pc = "loop"
    /\ event' = <<"decoration_configure", mode>>
    /\ sent' = IF mode = "ClientSide" THEN <<Req("set_mode", <<"ServerSide">>)>> ELSE <<>>
    /\ UNCHANGED <<pc, fault, state, nGlobals, seen, lastName, heldAtRoundtrip,
                   nConfigures, pools>>

\* Dispatch<ZxdgToplevelDecorationV1>::event, Configure { mode }: logs the mode
DecorationConfigure(mode) ==
    /\ pc = "loop"
    /\ event' = <<"decoration_configure", mode>>
    /\ sent' = <<>>
    /\ UNCHANGED <<pc, fault, state, nGlobals, seen, lastName, heldAtRoundtrip,
                   nConfigures, pools>>

\* ---------------------------------------------------------- specifications
\* the versions a global is advertised with in a session: the lowest version,
\* and the version 4 of the compositor of the round-trip scenario
Versions == {1, 4}
Serials == 1..MaxSerial
\* wl_compositor and the decoration manager are advertised in either
\* version, wl_shm, xdg_wm_base and unmatched interfaces in version 1
\* (SpecBind takes every interface through every version)
VersionsOf(interface) ==
    IF interface \in {WlCompositor, ZxdgDecorationManagerV1} THEN Versions ELSE {1}
\* the free pages a session meets: none, one, the 64 of a filesystem of
\* 256 KiB, one less than the file needs, and enough (SpecFill takes a
\* session through every number of them)
SessionFreePages == {0, 1, 64, PagesOfFile - 1, PagesOfFile}
\* the free pages are looked at by the fill loop only, which runs only when
\* create_shm_pool returned Ok
FreePagesWhen(outcome, pages) == IF outcome = "ok" THEN pages ELSE {PagesOfFile}

Next ==
    \/ /\ nGlobals < MaxGlobals
       /\ \E i \in Interfaces : \E v \in VersionsOf(i) : RegistryGlobal(i, v)
    \/ MainStartup
    \/ DispatchError
    \/ \E s \in Serials : XdgWmBasePing(s)
    \/ /\ nConfigures < MaxConfigures
       /\ \E s \in Serials, o \in AllocOutcomes :
              \E n \in FreePagesWhen(o, SessionFreePages) : XdgSurfaceConfigure(s, o, n)
    \/ \E i \in 1..Len(pools) : WlBufferRelease(i)
    \/ XdgToplevelEvent
    \/ \E m \in Modes : DecorationConfigure(m)
    \/ \E n \in 1..nGlobals : RegistryGlobalRemove(n)

Spec == Init /\ [][Next]_vars

\* the registry alone, over every version up to MaxBindVersion
BindVersions == 1..MaxBindVersion

NextBind ==
    /\ nGlobals < MaxBindGlobals
    /\ \E i \in Interfaces, v \in BindVersions : RegistryGlobal(i, v)

SpecBind == Init /\ [][NextBind]_vars

\* one session shape, the four recognized globals in this order and then
\* configure events, over every number of free pages
FillGlobals == <<WlCompositor, WlShm, XdgWmBase, ZxdgDecorationManagerV1>>

NextFill ==
    \/ /\ nGlobals < Len(FillGlobals)
       /\ RegistryGlobal(FillGlobals[nGlobals + 1], 1)
    \/ MainStartup
    \/ /\ nConfigures < MaxConfigures
       /\ \E s \in Serials, o \in AllocOutcomes :
              \E n \in FreePagesWhen(o, FreePages) : XdgSurfaceConfigure(s, o, n)

SpecFill == Init /\ [][NextFill]_vars

\* ================================================================== claims
\* the operation names of a sequence of requests, in order
Ops(reqs) == [k \in 1..Len(reqs) |-> reqs[k].op]
\* a request with this operation is among reqs
HasOp(reqs, op) == \E k \in 1..Len(reqs) : reqs[k].op = op
\* the requests of reqs with this operation, in order
OnlyOp(reqs, op) == SelectSeq(reqs, LAMBDA r : r.op = op)
\* the three globals main cannot do without
Required == {WlCompositor, WlShm, XdgWmBase}

\* C1 as stated: while the xdg_surface has received no configure event, no
\* step of the client issues an attach request or a commit request.
C1_NoAttachNoCommitBeforeConfigure ==
    nConfigures = 0 => ~HasOp(sent, "attach") /\ ~HasOp(sent, "commit")

\* C1 amended: while the xdg_surface has received no configure event, no
\* attach request is issued, and the only commit issued is the initial commit
\* of main's startup, which is the last request of startup and has no buffer.
C1_NoAttachBeforeConfigure ==
    nConfigures = 0 =>
        /\ ~HasOp(sent, "attach")
        /\ HasOp(sent, "commit") =>
              /\ event = <<"startup">>
              /\ Len(OnlyOp(sent, "commit")) = 1
              /\ sent[Len(sent)].op = "commit"

\* startup has issued its commit and no configure has been received yet
C1_Witness ==
    pc = "loop" /\ nConfigures = 0 /\ event = <<"startup">> /\ HasOp(sent, "commit")

\* C2: the handler of every configure(serial) event issues exactly one
\* ack_configure, carrying that serial, and no other step issues an
\* ack_configure; handlers run one after the other in the order the events are
\* dispatched, so the acknowledgments are s1, s2, ... in the order received.
C2_AckEveryConfigureWithItsSerial ==
    /\ event[1] = "configure" =>
          OnlyOp(sent, "ack_configure") = <<Req("ack_configure", <<event[2]>>)>>
    /\ event[1] # "configure" => ~HasOp(sent, "ack_configure")

\* a second configure, with a serial other than the first serial value, was
\* acknowledged (also when its handler then panicked)
C2_Witness ==
    event[1] = "configure" /\ event[2] = 2 /\ nConfigures = 2

\* C3: the handler of every ping(serial) event issues exactly one request, the
\* pong carrying that serial, whatever the handshake state; no other step
\* issues a pong.
C3_PongEveryPingWithItsSerial ==
    /\ event[1] = "ping" => sent = <<Req("pong", <<event[2]>>)>>
    /\ event[1] # "ping" => ~HasOp(sent, "pong")

\* a ping was answered between two configure cycles
C3_Witness ==
    event[1] = "ping" /\ pc = "loop" /\ nConfigures = 1 /\ Len(pools) = 1
        /\ pools[1].attached

\* C4 as stated: the handler of every configure(serial) event issues
\* ack_configure(serial), attach(buffer, 0, 0) and commit, in that order.
C4_EveryConfigureAckAttachCommit ==
    event[1] = "configure" =>
        /\ HasOp(sent, "ack_configure") /\ HasOp(sent, "attach") /\ HasOp(sent, "commit")
        /\ SelectSeq(Ops(sent), LAMBDA o : o \in {"ack_configure", "attach", "commit"})
              = <<"ack_configure", "attach", "commit">>

\* C4 amended: the handler of every configure(serial) event, the first and
\* every later one, for which draw_frame returns a buffer issues
\* ack_configure(serial), create_pool, create_buffer, attach(buffer, 0, 0) and
\* commit, in that order and nothing else, the buffer being the one just
\* created; when draw_frame does not return a buffer the handler panics, or
\* the process is killed by a signal inside draw_frame, without having issued
\* attach or commit.
C4_ConfigureAckAttachCommitWhenDrawn ==
    event[1] = "configure" =>
        IF pc = "loop"
        THEN /\ Ops(sent) = <<"ack_configure", "create_pool", "create_buffer",
                              "attach", "commit">>
             /\ sent[1].args = <<event[2]>>
             /\ sent[4].args = <<Len(pools), 0, 0>>
             /\ sent[3].args[1] = Len(pools)
        ELSE /\ pc \in {"panic", "killed"}
             /\ ~HasOp(sent, "attach") /\ ~HasOp(sent, "commit")

\* the second of two consecutive configure cycles ran to its commit
C4_Witness ==
    /\ event[1] = "configure" /\ pc = "loop" /\ nConfigures = 2
    /\ Len(pools) = 2 /\ pools[1].attached /\ pools[2].attached

\* the highest version of each interface that the client implements: 1 for
\* the decoration manager (version.min(1) on line 79); for the other three the
\* source names no maximum, and the newest published revision of the
\* interface bounds that of any protocol bindings the client is built with
ClientMaxVersion(interface) ==
    CASE interface = WlCompositor -> 6
      [] interface = WlShm -> 2
      [] interface = XdgWmBase -> 7
      [] interface = ZxdgDecorationManagerV1 -> 1

\* C5 as stated: every bind request issued for a global(name, interface,
\* version) event asks for at most min(version, the client's maximum
\* supported version of the interface).
C5_BindVersionAtMostClientMax ==
    event[1] = "global" =>
        \A k \in 1..Len(sent) :
            sent[k].op = "bind" =>
                sent[k].args[3] <= Min(event[4], ClientMaxVersion(event[3]))

\* C6: at every step a capability handle is held exactly when a global with
\* its interface name has been observed; a global whose interface is none of
\* the four recognized names issues no request and leaves the whole AppState
\* unchanged; and when the round-trip returns after exactly wl_compositor,
\* wl_shm and xdg_wm_base were lastName, exactly 3 capabilities are bound.
C6_HandlesAreTheObservedInterfaces ==
    [][/\ Held(state') = seen' \cap Recognized
       /\ (nGlobals' # nGlobals /\ event'[3] \notin Recognized) =>
              (sent' = <<>> /\ state' = state)
       /\ (pc = "roundtrip" /\ event' = <<"startup">> /\ seen \cap Recognized = Required) =>
              (Cardinality(heldAtRoundtrip') = 3 /\ heldAtRoundtrip' = Held(state))
      ]_vars

\* the round-trip returned after the three required globals and one global of
\* an unrecognized interface were advertised: three capabilities are bound
C6_Witness ==
    /\ event = <<"startup">> /\ nGlobals = 4 /\ seen = Required \cup {WlOutput}
    /\ heldAtRoundtrip = Required

\* C7 as stated: when the round-trip advertised wl_compositor, wl_shm and
\* xdg_wm_base but no decoration manager, startup creates the surface, the
\* xdg_surface and the toplevel, issues the initial commit and enters the
\* event loop, issuing neither get_toplevel_decoration nor set_mode.
C7_StartupWithoutDecorationManager ==
    (event = <<"startup">> /\ heldAtRoundtrip = Required) =>
        /\ pc = "loop"
        /\ HasOp(sent, "create_surface") /\ HasOp(sent, "get_xdg_surface")
        /\ HasOp(sent, "get_toplevel") /\ HasOp(sent, "commit")
        /\ ~HasOp(sent, "get_toplevel_decoration") /\ ~HasOp(sent, "set_mode")

\* the requests that are surface work
SurfaceWorkOps ==
    {"create_surface", "get_xdg_surface", "get_toplevel", "ack_configure",
     "create_pool", "attach", "commit"}

\* C8 as stated: when a required global (wl_compositor, wl_shm, xdg_wm_base)
\* was not held when the round-trip returned, no step after the round-trip
\* issues create_surface, get_xdg_surface, get_toplevel, ack_configure,
\* create_pool, attach or commit.
C8_NoSurfaceWorkWithoutRequiredGlobal ==
    (pc # "roundtrip" /\ ~(Required \subseteq heldAtRoundtrip)) =>
        \A k \in 1..Len(sent) : sent[k].op \notin SurfaceWorkOps

\* C9 as stated: for every pool created and not yet released by the server,
\* the backing descriptor is open and the mapping is valid.
C9_DescriptorOpenWhileBufferInUse ==
    \A i \in 1..Len(pools) :
        (pools[i].pool /\ ~pools[i].released) => (pools[i].fdOpen /\ pools[i].mapped)

\* C10: every buffer is provisioned with stride = Width * 4 and
\* size = Width * Height * 4: create_pool is requested with that size,
\* create_buffer with offset 0, Width, Height and stride Width * 4, and the
\* file is sized to, and mapped with, exactly that size.
C10_StrideAndSizeExact ==
    /\ \A k \in 1..Len(sent) :
          /\ sent[k].op = "create_pool" =>
                sent[k].args = <<sent[k].args[1], Width * Height * 4>>
          /\ sent[k].op = "create_buffer" =>
                sent[k].args =
                    <<sent[k].args[1], 0, Width, Height, Width * 4, "Argb8888">>
    /\ \A i \in 1..Len(pools) :
          /\ pools[i].len \in {0, Width * Height * 4}
          /\ pools[i].mapped => pools[i].mapLen = Width * Height * 4
          /\ pools[i].pool => pools[i].len = Width * Height * 4

\* a configure handler provisioned a buffer: pool and buffer were requested
C10_Witness ==
    /\ event[1] = "configure" /\ HasOp(sent, "create_pool")
    /\ HasOp(sent, "create_buffer") /\ pools[Len(pools)].buffer

\* C11 as stated: a global_remove(name) event for a global the client has not
\* bound (here the latest wl_output global, an interface handle_global_add
\* does not match) is a no-op: no request is issued and the session goes on
\* dispatching events.
C11_GlobalRemoveOfUnboundIsNoOp ==
    (event[1] = "global_remove" /\ lastName[WlOutput] = event[2]) =>
        /\ pc \in {"roundtrip", "loop"}
        /\ fault = ""
        /\ sent = <<>>

\* C12: a toplevel event, in any handshake state, issues no request and
\* changes nothing of the session: main stays in its dispatch loop without a
\* fault, with the same AppState, pools and counters, so that the configure and
\* ping handlers run on the next events exactly as they would have.
C12_ToplevelEventChangesNothing ==
    [][event' = <<"toplevel">> =>
          /\ sent' = <<>>
          /\ pc = "loop" /\ pc' = "loop" /\ fault' = ""
          /\ UNCHANGED <<state, nGlobals, seen, lastName, heldAtRoundtrip,
                         nConfigures, pools>>
      ]_vars

\* a toplevel event was handled between two configure cycles
C12_Witness ==
    /\ event = <<"toplevel">> /\ pc = "loop" /\ nConfigures = 1
    /\ Len(pools) = 1 /\ pools[1].attached

\* C13 as stated: once main is in its dispatch loop it leaves the loop only
\* when a dispatch returns an error; a dispatch error ends the loop at once,
\* and after it no step is taken (no retry, no further event).  The panics of
\* the unimplemented global_remove arm (C11) and of a wl_shm capability that
\* was never bound (C8) are left aside.
C13_LoopEndsOnlyOnDispatchError ==
    [][/\ (pc = "loop" /\ fault' \notin {"todo_global_remove", "unwrap_shm"}) =>
              pc' \in {"loop", "error"}
       /\ event' = <<"error">> => pc' = "error"
       /\ pc # "error"
      ]_vars

\* C13 amended: once main is in its dispatch loop it leaves the loop only
\* when a dispatch returns an error, when a handler panics, or when the
\* process is killed by a signal inside a configure handler (SIGXFSZ while
\* sizing the file, SIGBUS in the fill loop); a
\* dispatch error ends the loop at once, without a fault and without a
\* request, and after an error, a panic or the signal no step is taken (no
\* retry, no further event).
C13_LoopEndsOnlyOnErrorPanicOrSignal ==
    [][/\ pc = "loop" => pc' \in {"loop", "error", "panic", "killed"}
       /\ (pc = "loop" /\ pc' \in {"panic", "killed"}) =>
              (fault' # "" /\ event'[1] \in {"configure", "global_remove"})
       /\ pc' = "killed" =>
              (fault' \in {"SIGBUS", "SIGXFSZ"} /\ event'[1] = "configure")
       /\ event' = <<"error">> =>
              (pc' = "error" /\ sent' = <<>> /\ fault' = fault /\ state' = state)
       /\ pc \notin {"error", "panic", "killed"}
      ]_vars

\* a dispatch error ended the loop after a configure cycle had been handled
C13_Witness ==
    /\ pc = "error" /\ event = <<"error">> /\ IsSome(state.xdg_toplevel)
    /\ nConfigures = 1 /\ fault = ""

\* C14: after any sequence of global events, the handle held for each
\* recognized interface is the one bound to the most recently advertised
\* global of that interface (a later advertisement overwrites an earlier one),
\* and no handle is held for an interface that was never advertised.
C14_LatestAdvertisementHeld ==
    \A i \in Recognized :
        IF lastName[i] = 0
        THEN state[FieldOf(i)] = None
        ELSE /\ IsSome(state[FieldOf(i)])
             /\ state[FieldOf(i)][1].name = lastName[i]

\* two globals were advertised, both wl_shm, and the handle held is the one
\* bound to the second
C14_Witness ==
    /\ nGlobals = 2 /\ seen = {WlShm}
    /\ state.shm = Some([name |-> 2, version |-> 1])
    /\ event = <<"global", 2, WlShm, 1>>

\* the requests that use a bound capability
CapabilityOps == {"create_surface", "get_xdg_surface", "get_toplevel_decoration",
                  "create_pool"}

\* C15: the round-trip is an ordering point.  The bind of a recognized global
\* is issued by the handler of its global event and by no other step, so the
\* binds of all globals dispatched inside the round-trip are issued, and their
\* handles held, when the round-trip returns; and no step taken before the
\* round-trip has returned issues create_surface, get_xdg_surface,
\* get_toplevel_decoration or create_pool: these are issued only by main's
\* startup after the round-trip and by configure handlers in the loop.
C15_RoundtripOrdersBindsBeforeUse ==
    /\ pc = "roundtrip" => \A k \in 1..Len(sent) : sent[k].op \notin CapabilityOps
    /\ (\E k \in 1..Len(sent) : sent[k].op \in CapabilityOps) =>
           (event[1] \in {"startup", "configure"} /\ pc # "roundtrip")
    /\ (event[1] = "global" /\ event[3] \in Recognized) =>
           /\ Ops(sent) = <<"bind">>
           /\ sent[1].args[1] = event[2] /\ sent[1].args[2] = event[3]
    /\ HasOp(sent, "bind") => event[1] = "global"
    /\ event = <<"startup">> =>
           heldAtRoundtrip = seen \cap Recognized

\* the round-trip returned after four globals, one of each recognized
\* interface, were dispatched inside it, and startup then used the capabilities
C15_Witness ==
    /\ event = <<"startup">> /\ pc = "loop" /\ nGlobals = 4
    /\ heldAtRoundtrip = Recognized
    /\ HasOp(sent, "create_surface") /\ HasOp(sent, "get_toplevel_decoration")

\* the steps of one configure cycle that provision and attach its buffer
ProvisionOrder == <<"allocate", "create_pool", "create_buffer", "fill", "attach">>

\* C16: in every configure cycle the provisioning steps taken are an initial
\* part of allocate, create_pool, create_buffer, fill, attach, in that order;
\* a cycle that attaches has taken all of them, has filled the whole mapped
\* region, and its create_pool, create_buffer and attach requests are issued
\* in that order and all name the buffer provisioned in that same cycle.  A
\* buffer whose fill was cut short, whatever the free pages of the
\* filesystem, is never attached: the process ended in that fill.
C16_ProvisionThenAttachSameCycle ==
    /\ \A i \in 1..Len(pools) :
          /\ Len(pools[i].steps) <= Len(ProvisionOrder)
          /\ pools[i].steps = SubSeq(ProvisionOrder, 1, Len(pools[i].steps))
          /\ pools[i].attached =>
                /\ pools[i].steps = ProvisionOrder
                /\ pools[i].filled = pools[i].mapLen
                /\ pools[i].mapLen = Size
          /\ (pools[i].buffer /\ pools[i].filled < pools[i].mapLen) =>
                (~pools[i].attached /\ i = Len(pools) /\ pc = "killed")
    /\ HasOp(sent, "attach") =>
          /\ event[1] = "configure"
          /\ SelectSeq(sent, LAMBDA r : r.op \in {"create_pool", "create_buffer", "attach"})
                = <<Req("create_pool", <<Len(pools), Size>>),
                    Req("create_buffer", <<Len(pools), 0, Width, Height, Stride, "Argb8888">>),
                    Req("attach", <<Len(pools), 0, 0>>)>>
          /\ pools[Len(pools)].attached

\* the second configure cycle provisioned and attached its own buffer, after
\* the first cycle had attached the first
C16_Witness ==
    /\ event[1] = "configure" /\ nConfigures = 2 /\ Len(pools) = 2
    /\ pools[1].attached /\ pools[2].attached
    /\ HasOp(sent, "attach") /\ pc = "loop"

\* C17: the handler of a decoration configure(mode) event issues no request
\* and changes nothing of the session: main stays in the loop, the AppState,
\* the count of configures handled and the buffers are as before.  The
\* configure handler reads only the AppState, the serial and the buffers
\* provisioned so far, none of which the decoration event changes, so the
\* ack, attach, commit cycle is the same before, after or without it: every
\* configure handler that returns has issued ack_configure, create_pool,
\* create_buffer, attach, commit, whatever events came before.
C17_DecorationConfigureChangesNothing ==
    [][/\ event'[1] = "decoration_configure" =>
              /\ sent' = <<>>
              /\ pc = "loop" /\ pc' = "loop" /\ fault' = fault
              /\ UNCHANGED <<state, nGlobals, seen, lastName, heldAtRoundtrip,
                             nConfigures, pools>>
       /\ (event'[1] = "configure" /\ pc' = "loop") =>
              Ops(sent') = <<"ack_configure", "create_pool", "create_buffer",
                             "attach", "commit">>
      ]_vars

\* a client-side decoration configure arrived before the first surface
\* configure
C17_Witness ==
    /\ event = <<"decoration_configure", "ClientSide">> /\ pc = "loop"
    /\ nConfigures = 0 /\ IsSome(state.xdg_toplevel)

\* C18: when the allocation fails while a configure event is handled (the
\* temporary file cannot be created or sized, or mmap fails), the session
\* ends in that handler, having issued only the ack_configure: no
\* create_pool, create_buffer, attach or commit.  It ends by the panic
\* "failed to draw frame" when create_shm_pool returns an error, and by
\* SIGXFSZ when sizing the file exceeds the file size limit.  The allocation
\* was attempted once in that cycle; and after a panic or the end of the
\* process by a signal no step is taken, so no further event is handled.
C18_AllocationFailureIsFatal ==
    [][/\ pc \notin {"panic", "killed"}
       /\ (event'[1] = "configure" /\ event'[3] \in AllocFailures \cup AllocSignals) =>
              /\ IF event'[3] \in AllocFailures
                 THEN pc' = "panic" /\ fault' = "failed to draw frame"
                 ELSE pc' = "killed" /\ fault' = "SIGXFSZ"
              /\ Ops(sent') = <<"ack_configure">>
              /\ Len(pools') = Len(pools) + 1
              /\ pools'[Len(pools')].steps = <<"allocate">>
              /\ ~pools'[Len(pools')].pool /\ ~pools'[Len(pools')].buffer
              /\ ~pools'[Len(pools')].attached
              /\ nConfigures' = nConfigures + 1
      ]_vars

\* mmap failed in the second configure cycle, after the first cycle had
\* attached its buffer
C18_Witness ==
    /\ event = <<"configure", 2, "mmap_failed">> /\ nConfigures = 2
    /\ pc = "panic" /\ Len(pools) = 2 /\ pools[1].attached

\* the requests of main's startup, in the order of lines 219-234
StartupOrder ==
    <<Req("create_surface", <<>>),
      Req("get_xdg_surface", <<"wl_surface">>),
      Req("get_toplevel", <<>>),
      Req("set_title", <<"Hello, world!">>),
      Req("get_toplevel_decoration", <<"xdg_toplevel">>),
      Req("set_mode", <<"ServerSide">>),
      Req("commit", <<>>)>>

\* C19: the requests startup issues are an initial part of create_surface,
\* get_xdg_surface, get_toplevel, set_title, get_toplevel_decoration,
\* set_mode(ServerSide), commit; main is in the event loop only after startup
\* issued all seven, in that order, with no attach among them; and before the
\* first configure event the commit that ends startup is the only commit.
C19_StartupOrderThenLoop ==
    /\ event = <<"startup">> =>
          /\ Len(sent) <= Len(StartupOrder)
          /\ sent = SubSeq(StartupOrder, 1, Len(sent))
          /\ pc = "loop" <=> sent = StartupOrder
    /\ pc = "loop" =>
          /\ IsSome(state.surface) /\ IsSome(state.xdg_surface)
          /\ IsSome(state.xdg_toplevel)
    /\ (nConfigures = 0 /\ event # <<"startup">>) => ~HasOp(sent, "commit")
    /\ nConfigures > 0 => IsSome(state.xdg_toplevel)

\* startup has issued its seven requests and main is in the loop, no
\* configure received yet
C19_Witness ==
    /\ event = <<"startup">> /\ pc = "loop" /\ nConfigures = 0
    /\ Len(sent) = 7 /\ sent[6] = Req("set_mode", <<"ServerSide">>)
    /\ sent[7].op = "commit"

\* C20 as stated: whenever a configure event has been dispatched, the AppState
\* holds the surface, the xdg_toplevel, the queue handle and the shm
\* capability, and none of the handler's lookups of them has failed; no
\* configure is dispatched inside the round-trip.
C20_ConfigureLookupsNeverFail ==
    event[1] = "configure" =>
        /\ IsSome(state.surface) /\ IsSome(state.xdg_toplevel)
        /\ IsSome(state.queue_handle) /\ IsSome(state.shm)
        /\ fault \notin {"unwrap_surface", "unwrap_xdg_toplevel",
                          "unwrap_queue_handle", "unwrap_shm"}
        /\ pc # "roundtrip"

====
